---- MODULE Spec2Model ----
(***************************************************************************)
(* A model of url_poller.py: URLPoller.check_url (classification of one    *)
(* HTTP GET), URLPoller.poll_urls (bounded worker pool, collection in      *)
(* completion order, final sort by name) and the two program entry paths   *)
(* (built-in list, JSON input file).                                       *)
(*                                                                         *)
(* Conventions.                                                            *)
(*  - Python's None is the empty tuple; a present value x is <<x>>.        *)
(*  - An endpoint name is modelled by its rank in Python's string order,   *)
(*    so sorting by name is sorting by that integer.                       *)
(*  - A string built by an f-string is the tuple of its parts.             *)
(*  - 'response_time' and 'timestamp' of a result are clock readings that  *)
(*    no modelled operation reads back; the result records leave them out. *)
(***************************************************************************)
EXTENDS Integers, Sequences, FiniteSets, TLC

\* ------------------------------------------------------------------ bounds
MaxEndpoints == 3
MaxWorkers == 2

\* --------------------------------------------------------------- constants
\* URLPoller(timeout=10, ...) as both entry paths construct it.
DefaultTimeout == 10

None == <<>>
Some(x) == <<x>>

Names == 1..MaxEndpoints

\* ------------------------------------------------- outcomes of session.get
\* The exception classes check_url's except clauses name, with the bases of
\* the exceptions the HTTP client raises (ConnectTimeout derives from both
\* ConnectionError and Timeout).
Bases(k) ==
    CASE k = "ReadTimeout"      -> {"Timeout", "RequestException", "Exception"}
      [] k = "ConnectTimeout"   -> {"ConnectionError", "Timeout", "RequestException", "Exception"}
      [] k = "ConnectionError"  -> {"ConnectionError", "RequestException", "Exception"}
      [] k = "TooManyRedirects" -> {"RequestException", "Exception"}
      [] k = "ValueError"       -> {"Exception"}

ExcKinds == {"ReadTimeout", "ConnectTimeout", "ConnectionError", "TooManyRedirects", "ValueError"}
ExcTexts == {"boom", "reset"}

Response(c) == [kind |-> "response", code |-> c, exc |-> "", text |-> ""]
Raised(k, t) == [kind |-> "raise", code |-> 0, exc |-> k, text |-> t]

StatusCodes == {100, 199, 200, 201, 204, 299, 300, 301, 304, 399,
                400, 404, 499, 500, 503, 599, 600, 999}

GetOutcomes == {Response(c) : c \in StatusCodes}
               \cup {Raised(k, t) : k \in ExcKinds, t \in ExcTexts}

\* The outcomes drawn for the checks of a whole poll run.
PollOutcomes == {Response(200), Response(301), Raised("ReadTimeout", "boom")}

\* The outcomes drawn where only the end of the run is in question.
LiveOutcomes == {Response(200)}

Timeouts == {1, 10, 30}

\* --------------------------------------------------------------- check_url
\* An off-by-one in the redirect range: 400 counts as a redirect.
ClassifyInclusive(c) ==
    IF c = 200 THEN "up"
    ELSE IF 300 <= c /\ c <= 400 THEN "redirect"
    ELSE IF 400 <= c /\ c < 500 THEN "client_error"
    ELSE IF 500 <= c /\ c < 600 THEN "server_error"
    ELSE "unknown"

\* The if/elif chain on response.status_code.
Classify(c) ==
    IF c = 200 THEN "up"
    ELSE IF 300 <= c /\ c < 400 THEN "redirect"
    ELSE IF 400 <= c /\ c < 500 THEN "client_error"
    ELSE IF 500 <= c /\ c < 600 THEN "server_error"
    ELSE "unknown"

\* The result dictionary as check_url first builds it.
NewResult(name, url) ==
    [name |-> name, url |-> url, status |-> "unknown",
     status_code |-> None, error |-> None]

\* check_url with the ConnectionError clause tried before the Timeout clause.
CheckUrlConnFirst(name, url, timeout, o) ==
    LET result == NewResult(name, url) IN
    IF o.kind = "response"
    THEN [result EXCEPT !.status_code = Some(o.code), !.status = Classify(o.code)]
    ELSE IF "ConnectionError" \in Bases(o.exc)
    THEN [result EXCEPT !.status = "connection_error",
                        !.error = Some(<<"Failed to connect to the server">>)]
    ELSE IF "Timeout" \in Bases(o.exc)
    THEN [result EXCEPT !.status = "timeout",
                        !.error = Some(<<"Request timed out after ", ToString(timeout), " seconds">>)]
    ELSE IF "RequestException" \in Bases(o.exc)
    THEN [result EXCEPT !.status = "error", !.error = Some(<<o.text>>)]
    ELSE [result EXCEPT !.status = "error",
                        !.error = Some(<<"Unexpected error: ", o.text>>)]

\* check_url: the try body on a response, else the first except clause whose
\* class is a base of the raised exception.
CheckUrl(name, url, timeout, o) ==
    LET result == NewResult(name, url) IN
    IF o.kind = "response"
    THEN [result EXCEPT !.status_code = Some(o.code), !.status = Classify(o.code)]
    ELSE IF "Timeout" \in Bases(o.exc)
    THEN [result EXCEPT !.status = "timeout",
                        !.error = Some(<<"Request timed out after ", ToString(timeout), " seconds">>)]
    ELSE IF "ConnectionError" \in Bases(o.exc)
    THEN [result EXCEPT !.status = "connection_error",
                        !.error = Some(<<"Failed to connect to the server">>)]
    ELSE IF "RequestException" \in Bases(o.exc)
    THEN [result EXCEPT !.status = "error", !.error = Some(<<o.text>>)]
    ELSE [result EXCEPT !.status = "error",
                        !.error = Some(<<"Unexpected error: ", o.text>>)]

\* ------------------------------------------------------- inputs of a run
\* main()'s list: Google, Amazon, Github, in that order; in string order
\* Amazon < Github < Google.
BuiltinList ==
    << [caption |-> 3, url |-> 31], [caption |-> 1, url |-> 12], [caption |-> 2, url |-> 23] >>

\* The items of an input file: captions may repeat; the item at position i
\* with caption c has the url 10*c + i.
ItemsOf(caps) == [i \in 1..Len(caps) |-> [caption |-> caps[i], url |-> 10 * caps[i] + i]]
FileLists == {ItemsOf(caps) : caps \in UNION {[1..k -> Names] : k \in 0..MaxEndpoints}}

\* urls_dict[caption] = url on a dict that keeps insertion order.
DictSet(d, k, v) ==
    IF \E i \in 1..Len(d) : d[i].name = k
    THEN [i \in 1..Len(d) |-> IF d[i].name = k THEN [name |-> k, url |-> v] ELSE d[i]]
    ELSE Append(d, [name |-> k, url |-> v])

RECURSIVE BuildDict(_)
BuildDict(its) ==
    IF its = <<>> THEN <<>>
    ELSE LET n == Len(its) IN
         DictSet(BuildDict(SubSeq(its, 1, n - 1)), its[n].caption, its[n].url)

Keys(d) == {d[i].name : i \in 1..Len(d)}
IndexOf(d, k) == CHOOSE i \in 1..Len(d) : d[i].name = k
DictGet(d, k) == d[IndexOf(d, k)].url

\* ------------------------------------------------------------------ state
VARIABLES
    argv,        \* "none": no command-line argument; "file": a path is given
    fileState,   \* "missing" | "invalid" | "ok" ("n/a" without a path)
    items,       \* the list of {url, caption} items the run starts from
    pc,          \* "start" | "submit" | "collect" | "report" | "exited"
    timeout,     \* self.timeout
    max_workers, \* self.max_workers
    urls_dict,   \* the name -> url mapping, in insertion order
    submitted,   \* how many items of urls_dict have been submitted
    queue,       \* the executor's work queue (names, FIFO)
    busy,        \* worker threads that are running a work item
    futState,    \* per name: "none" | "pending" | "running" | "finished" | "yielded"
    futValue,    \* per name: None, or Some of what the future holds
    attempts,    \* per name: calls of session.get
    results,     \* poll_urls' results list, in completion order
    returned,    \* None, or Some(the list poll_urls returned)
    exitCode,    \* None, or Some(the process exit status)
    diagnostic,  \* a file-level error message was printed
    fileWritten, \* the result file was written
    call,        \* None, or Some(the arguments of a direct check_url call)
    ret          \* None, or Some(what that call returned)

vars == << argv, fileState, items, pc, timeout, max_workers, urls_dict, submitted,
           queue, busy, futState, futValue, attempts, results, returned, exitCode,
           diagnostic, fileWritten, call, ret >>

progVars == << argv, fileState, items, timeout, max_workers >>
pollVars == << urls_dict, submitted, queue, busy, futState, futValue, attempts, results, returned >>
exitVars == << exitCode, diagnostic, fileWritten >>
callVars == << call, ret >>

Idle ==
    /\ urls_dict = <<>>
    /\ submitted = 0
    /\ queue = <<>>
    /\ busy = 0
    /\ futState = [n \in Names |-> "none"]
    /\ futValue = [n \in Names |-> None]
    /\ attempts = [n \in Names |-> 0]
    /\ results = <<>>
    /\ returned = None
    /\ exitCode = None
    /\ diagnostic = FALSE
    /\ fileWritten = FALSE

Init ==
    /\ argv \in {"none", "file"}
    /\ fileState \in (IF argv = "file" THEN {"missing", "invalid", "ok"} ELSE {"n/a"})
    /\ items \in (IF argv = "none" THEN {BuiltinList}
                  ELSE IF fileState = "ok" THEN FileLists ELSE {<<>>})
    /\ pc = "start"
    /\ timeout = DefaultTimeout
    /\ max_workers \in 1..MaxWorkers
    /\ Idle
    /\ call = None
    /\ ret = None

\* ------------------------------------------------------------ entry paths
\* load_urls_from_file that swallows the file error and goes on with no items.
LoadUrlsFromFileLenient ==
    /\ pc = "start"
    /\ argv = "file"
    /\ urls_dict' = BuildDict(items)
    /\ pc' = "submit"
    /\ UNCHANGED << progVars, submitted, queue, busy, futState, futValue, attempts,
                    results, returned, exitVars, callVars >>

\* __main__ with a path: load_urls_from_file, then the caption -> url loop.
\* A missing file or invalid JSON prints the error and calls sys.exit(1).
LoadUrlsFromFile ==
    /\ pc = "start"
    /\ argv = "file"
    /\ \/ /\ fileState \in {"missing", "invalid"}
          /\ diagnostic' = TRUE
          /\ exitCode' = Some(1)
          /\ pc' = "exited"
          /\ UNCHANGED << urls_dict, fileWritten >>
       \/ /\ fileState = "ok"
          /\ urls_dict' = BuildDict(items)
          /\ pc' = "submit"
          /\ UNCHANGED exitVars
    /\ UNCHANGED << progVars, submitted, queue, busy, futState, futValue, attempts,
                    results, returned, callVars >>

\* main(): the built-in list and the caption -> url loop.
MainBuiltin ==
    /\ pc = "start"
    /\ argv = "none"
    /\ urls_dict' = BuildDict(items)
    /\ pc' = "submit"
    /\ UNCHANGED << progVars, submitted, queue, busy, futState, futValue, attempts,
                    results, returned, exitVars, callVars >>

\* -------------------------------------------------------------- poll_urls
\* executor.submit(self.check_url, name, url) for the next item of the dict.
Submit ==
    /\ pc = "submit"
    /\ submitted < Len(urls_dict)
    /\ LET n == urls_dict[submitted + 1].name IN
       /\ futState' = [futState EXCEPT ![n] = "pending"]
       /\ queue' = Append(queue, n)
    /\ submitted' = submitted + 1
    /\ UNCHANGED << progVars, pc, urls_dict, busy, futValue, attempts, results,
                    returned, exitVars, callVars >>

\* The dict comprehension is done; the as_completed loop begins.
AsCompleted ==
    /\ pc = "submit"
    /\ submitted = Len(urls_dict)
    /\ pc' = "collect"
    /\ UNCHANGED << progVars, pollVars, exitVars, callVars >>

\* A pool that starts a work item whenever one is queued, whatever the
\* number of busy workers.
StartCheckUnbounded ==
    /\ queue # <<>>
    /\ LET n == Head(queue) IN
       /\ futState' = [futState EXCEPT ![n] = "running"]
       /\ attempts' = [attempts EXCEPT ![n] = @ + 1]
    /\ queue' = Tail(queue)
    /\ busy' = busy + 1
    /\ UNCHANGED << progVars, pc, urls_dict, submitted, futValue, results, returned,
                    exitVars, callVars >>

\* A worker thread of the pool (at most max_workers of them) takes the head
\* of the work queue and runs check_url up to the session.get call.
StartCheck ==
    /\ queue # <<>>
    /\ busy < max_workers
    /\ LET n == Head(queue) IN
       /\ futState' = [futState EXCEPT ![n] = "running"]
       /\ attempts' = [attempts EXCEPT ![n] = @ + 1]
    /\ queue' = Tail(queue)
    /\ busy' = busy + 1
    /\ UNCHANGED << progVars, pc, urls_dict, submitted, futValue, results, returned,
                    exitVars, callVars >>

\* The future is set, but the worker is never handed back to the pool.
CompleteLeak(n, v) ==
    /\ futState[n] = "running"
    /\ futState' = [futState EXCEPT ![n] = "finished"]
    /\ futValue' = [futValue EXCEPT ![n] = Some(v)]
    /\ UNCHANGED busy

\* The work item ends: its future holds a result or an exception, and the
\* worker goes back to the queue.
Complete(n, v) ==
    /\ futState[n] = "running"
    /\ futState' = [futState EXCEPT ![n] = "finished"]
    /\ futValue' = [futValue EXCEPT ![n] = Some(v)]
    /\ busy' = busy - 1

\* A check that is queued again when its GET raised.
FinishCheckRetry(n, o) ==
    /\ futState[n] = "running"
    /\ IF o.kind = "raise"
       THEN /\ futState' = [futState EXCEPT ![n] = "pending"]
            /\ queue' = Append(queue, n)
            /\ busy' = busy - 1
            /\ UNCHANGED futValue
       ELSE /\ Complete(n, [raised |-> FALSE,
                            result |-> Some(CheckUrl(n, DictGet(urls_dict, n), timeout, o)),
                            text |-> ""])
            /\ UNCHANGED queue
    /\ UNCHANGED << progVars, pc, urls_dict, submitted, attempts, results,
                    returned, exitVars, callVars >>

\* session.get returns or raises with outcome o and check_url returns its
\* result, which the future then holds.
FinishCheck(n, o) ==
    /\ Complete(n, [raised |-> FALSE,
                    result |-> Some(CheckUrl(n, DictGet(urls_dict, n), timeout, o)),
                    text |-> ""])
    /\ UNCHANGED << progVars, pc, urls_dict, submitted, queue, attempts, results,
                    returned, exitVars, callVars >>

\* The submitted call raises out of the worker instead of returning (a
\* failure outside check_url's try/except, such as in a handler's own body
\* after the GET): the future holds the exception.
WorkerRaise(n) ==
    /\ Complete(n, [raised |-> TRUE, result |-> None, text |-> "boom"])
    /\ UNCHANGED << progVars, pc, urls_dict, submitted, queue, attempts, results,
                    returned, exitVars, callVars >>

\* The substitute result without its message.
FutureErrorResultNoMessage(name, url, text) ==
    [name |-> name, url |-> url, status |-> "error", status_code |-> None,
     error |-> None]

\* The result poll_urls substitutes when future.result() raises.
FutureErrorResult(name, url, text) ==
    [name |-> name, url |-> url, status |-> "error", status_code |-> None,
     error |-> Some(<<"Future execution error: ", text>>)]

\* The loop body without its except branch's append: a failed future is
\* skipped.
CollectDropFailed(n) ==
    /\ pc = "collect"
    /\ futState[n] = "finished"
    /\ LET v == futValue[n][1] IN
       results' = IF v.raised THEN results ELSE Append(results, v.result[1])
    /\ futState' = [futState EXCEPT ![n] = "yielded"]
    /\ UNCHANGED << progVars, pc, urls_dict, submitted, queue, busy, futValue,
                    attempts, returned, exitVars, callVars >>

\* One iteration of `for future in as_completed(...)`: a finished future not
\* yet yielded; its result, or the substitute when future.result() raises.
Collect(n) ==
    /\ pc = "collect"
    /\ futState[n] = "finished"
    /\ LET v == futValue[n][1] IN
       results' = Append(results,
                         IF v.raised
                         THEN FutureErrorResult(n, DictGet(urls_dict, n), v.text)
                         ELSE v.result[1])
    /\ futState' = [futState EXCEPT ![n] = "yielded"]
    /\ UNCHANGED << progVars, pc, urls_dict, submitted, queue, busy, futValue,
                    attempts, returned, exitVars, callVars >>

RECURSIVE InsertByName(_, _)
InsertByName(r, s) ==
    IF s = <<>> THEN <<r>>
    ELSE IF r.name < Head(s).name THEN <<r>> \o s
    ELSE <<Head(s)>> \o InsertByName(r, Tail(s))

\* The list returned as collected.
Unsorted(rs) == rs

\* sorted(results, key=lambda x: x['name']): a stable sort.
RECURSIVE SortedByName(_)
SortedByName(rs) ==
    IF rs = <<>> THEN <<>>
    ELSE LET n == Len(rs) IN InsertByName(rs[n], SortedByName(SubSeq(rs, 1, n - 1)))

\* as_completed has yielded every future; the with block ends (shutdown
\* waits for the workers) and the sorted list is returned.
ReturnSorted ==
    /\ pc = "collect"
    /\ \A n \in Keys(urls_dict) : futState[n] = "yielded"
    /\ returned' = Some(SortedByName(results))
    /\ pc' = "report"
    /\ UNCHANGED << progVars, urls_dict, submitted, queue, busy, futState, futValue,
                    attempts, results, exitVars, callVars >>

\* ------------------------------------------------------- report and exit
RECURSIVE FailedCount(_)
FailedCount(rs) ==
    IF rs = <<>> THEN 0
    ELSE (IF Head(rs).status \notin {"up", "redirect"} THEN 1 ELSE 0) + FailedCount(Tail(rs))

\* main() after the poll: print, save, return failed_count; then
\* sys.exit(exit_code), an 8-bit exit status.
MainTail ==
    /\ pc = "report"
    /\ argv = "none"
    /\ fileWritten' = TRUE
    /\ exitCode' = Some(FailedCount(returned[1]) % 256)
    /\ pc' = "exited"
    /\ UNCHANGED << progVars, pollVars, diagnostic, callVars >>

\* __main__ with a path, after the poll: print, save, and the script ends
\* (exit status 0).
FileTail ==
    /\ pc = "report"
    /\ argv = "file"
    /\ fileWritten' = TRUE
    /\ exitCode' = Some(0)
    /\ pc' = "exited"
    /\ UNCHANGED << progVars, pollVars, diagnostic, callVars >>

Next ==
    \/ LoadUrlsFromFile
    \/ MainBuiltin
    \/ Submit
    \/ AsCompleted
    \/ StartCheck
    \/ \E n \in Names, o \in PollOutcomes : FinishCheck(n, o)
    \/ \E n \in Names : WorkerRaise(n)
    \/ \E n \in Names : Collect(n)
    \/ ReturnSorted
    \/ MainTail
    \/ FileTail

Spec == Init /\ [][Next]_vars

\* ---------------------------------------------- poll_urls called on its own
PollInit ==
    /\ argv = "none"
    /\ fileState = "n/a"
    /\ items \in FileLists
    /\ pc = "submit"
    /\ timeout = DefaultTimeout
    /\ max_workers \in 1..MaxWorkers
    /\ urls_dict = BuildDict(items)
    /\ submitted = 0
    /\ queue = <<>>
    /\ busy = 0
    /\ futState = [n \in Names |-> "none"]
    /\ futValue = [n \in Names |-> None]
    /\ attempts = [n \in Names |-> 0]
    /\ results = <<>>
    /\ returned = None
    /\ exitCode = None
    /\ diagnostic = FALSE
    /\ fileWritten = FALSE
    /\ call = None
    /\ ret = None

PollNext ==
    \/ Submit
    \/ AsCompleted
    \/ StartCheck
    \/ \E n \in Names, o \in LiveOutcomes : FinishCheck(n, o)
    \/ \E n \in Names : WorkerRaise(n)
    \/ \E n \in Names : Collect(n)
    \/ ReturnSorted

\* The threads are scheduled fairly and every running check eventually
\* returns or raises: the run takes a step as long as one is possible.
Fairness == WF_vars(PollNext)

FairSpec == PollInit /\ [][PollNext]_vars /\ Fairness

\* ------------------------------------------- check_url called on its own
CallInputs ==
    [name : Names, url : {11, 22}, timeout : Timeouts, outcome : GetOutcomes]

CheckInit ==
    /\ argv = "none"
    /\ fileState = "n/a"
    /\ items = <<>>
    /\ pc = "call"
    /\ timeout = DefaultTimeout
    /\ max_workers = 1
    /\ Idle
    /\ call \in {Some(c) : c \in CallInputs}
    /\ ret = None

\* poller.check_url(name, url) on a poller built with the given timeout.
CheckUrlCall ==
    /\ pc = "call"
    /\ ret = None
    /\ LET c == call[1] IN ret' = Some(CheckUrl(c.name, c.url, c.timeout, c.outcome))
    /\ pc' = "called"
    /\ UNCHANGED << progVars, pollVars, exitVars, call >>

CheckNext == CheckUrlCall

CheckSpec == CheckInit /\ [][CheckNext]_vars

\* ------------------------------------------------------------------ claims
Polled == returned # None
Returned == returned[1]
RunningNow == {n \in Names : futState[n] = "running"}
HeldBy(n) == futValue[n][1]
Raising == {n \in Keys(urls_dict) : futValue[n] # None /\ HeldBy(n).raised}
ResultsNamed(k) == {i \in 1..Len(Returned) : Returned[i].name = k}

\* C1: once poll_urls has returned, the returned list holds exactly one
\* result per name of the input mapping: every input name occurs exactly
\* once and every result's name is an input name, whatever the checks'
\* outcomes (response, timeout, exception out of the worker) and order.
C1_OneResultPerEndpoint ==
    Polled =>
        /\ Len(Returned) = Cardinality(Keys(urls_dict))
        /\ \A k \in Keys(urls_dict) : Cardinality(ResultsNamed(k)) = 1
        /\ \A i \in 1..Len(Returned) : Returned[i].name \in Keys(urls_dict)

C1_Witness ==
    /\ Polled
    /\ Len(urls_dict) >= 2
    /\ Raising # {}
    /\ \E i \in 1..Len(Returned) : Returned[i].status = "timeout"
    /\ \E i \in 1..Len(Returned) : Returned[i].status = "redirect"

RECURSIVE Ascending(_)
Ascending(S) ==
    IF S = {} THEN <<>>
    ELSE LET m == CHOOSE x \in S : \A y \in S : x <= y IN <<m>> \o Ascending(S \ {m})

\* C2: the list poll_urls returns is in ascending order of name, and its
\* sequence of names is determined by the input mapping alone (the input
\* names in ascending order), so it is the same for every completion order.
C2_SortedByName ==
    Polled =>
        /\ \A i, j \in 1..Len(Returned) : i < j => Returned[i].name <= Returned[j].name
        /\ [i \in 1..Len(Returned) |-> Returned[i].name] = Ascending(Keys(urls_dict))

C2_Witness ==
    /\ Polled
    /\ Len(Returned) >= 3
    /\ results # Returned
    /\ results[1].name > results[2].name

Failing(rs) == {i \in 1..Len(rs) : rs[i].status # "up" /\ rs[i].status # "redirect"}

\* C3: on every run that completed polling, from the built-in list or from
\* an input file, the exit code is the number of results whose status is
\* neither up nor redirect (0 exactly when all are up or redirecting).
C3_ExitCodeIsFailedCount ==
    (pc = "exited" /\ Polled) => exitCode = Some(Cardinality(Failing(Returned)))

Called == pc = "called" /\ ret # None
Arg == call[1]
Ret == ret[1]

\* C4: for every status code c that check_url receives, the result has
\* status_code c and the status of the first matching rule: 200 up,
\* 300..399 redirect, 400..499 client_error, 500..599 server_error, any
\* other code unknown; a 404 gives client_error with status_code 404.
C4_StatusClassification ==
    (Called /\ Arg.outcome.kind = "response") =>
        LET c == Arg.outcome.code IN
        /\ Ret.status_code = Some(c)
        /\ c = 200 => Ret.status = "up"
        /\ c \in 300..399 => Ret.status = "redirect"
        /\ c \in 400..499 => Ret.status = "client_error"
        /\ c \in 500..599 => Ret.status = "server_error"
        /\ c \notin ({200} \cup 300..599) => Ret.status = "unknown"
        /\ c = 404 => (Ret.status = "client_error" /\ Ret.status_code = Some(404))

C4_Witness ==
    /\ Called
    /\ Arg.outcome.kind = "response"
    /\ Arg.outcome.code = 404
    /\ Ret.status = "client_error"

\* C5: when the GET raises, check_url returns a result for the same name
\* and url, classified by the first matching rule: a timeout (of either
\* kind) gives status timeout with an error naming the configured timeout;
\* a connection failure gives connection_error; another HTTP-client
\* exception gives error with the exception's text as the error; any other
\* exception gives error with the text prefixed by "Unexpected error: ".
C5_ExceptionClassification ==
    /\ pc = "called" => ret # None
    /\ (Called /\ Arg.outcome.kind = "raise") =>
        LET e == Arg.outcome.exc
            t == Arg.outcome.text IN
        /\ Ret.name = Arg.name
        /\ Ret.url = Arg.url
        /\ Ret.status_code = None
        /\ e \in {"ReadTimeout", "ConnectTimeout"} =>
              /\ Ret.status = "timeout"
              /\ Ret.error # None
              /\ \E i \in 1..Len(Ret.error[1]) : Ret.error[1][i] = ToString(Arg.timeout)
        /\ e = "ConnectionError" => Ret.status = "connection_error"
        /\ e = "TooManyRedirects" => (Ret.status = "error" /\ Ret.error = Some(<<t>>))
        /\ e = "ValueError" =>
              /\ Ret.status = "error"
              /\ Ret.error = Some(<<"Unexpected error: ", t>>)

C5_Witness ==
    /\ Called
    /\ Arg.outcome.kind = "raise"
    /\ Arg.outcome.exc = "ConnectTimeout"
    /\ Arg.timeout = 30
    /\ Ret.status = "timeout"

\* C6: when an endpoint's check raised out of the worker, poll_urls still
\* returns, with a substitute result for that endpoint carrying its own
\* name and url, status error and a non-empty error message, while every
\* other endpoint's result is the one its own check returned.
C6_FailedFutureSubstituted ==
    /\ \A n \in Names : (futState[n] = "yielded" /\ HeldBy(n).raised) =>
          \E i \in 1..Len(results) : results[i].name = n /\ results[i].status = "error"
    /\ Polled =>
          \A k \in Keys(urls_dict) :
             \E i \in 1..Len(Returned) :
                LET r == Returned[i] IN
                /\ r.name = k
                /\ IF HeldBy(k).raised
                   THEN /\ r.url = DictGet(urls_dict, k)
                        /\ r.status = "error"
                        /\ r.status_code = None
                        /\ r.error # None
                        /\ r.error[1] # <<>>
                   ELSE r = HeldBy(k).result[1]

C6_Witness ==
    /\ Polled
    /\ Raising # {}
    /\ Raising # Keys(urls_dict)
    /\ \E k \in Keys(urls_dict) \ Raising : HeldBy(k).result[1].status = "up"

\* C7: at every moment of a poll run the number of checks in flight (GET
\* started, not yet returned or raised) is at most max_workers, also when
\* there are more endpoints than workers.
C7_BoundedInFlight ==
    Cardinality(RunningNow) <= max_workers

C7_Witness ==
    /\ Len(urls_dict) > max_workers
    /\ Cardinality(RunningNow) = max_workers
    /\ queue # <<>>

\* C8: no endpoint's GET is ever attempted more than once, and when
\* poll_urls has returned every input endpoint's GET has been attempted
\* exactly once, whatever the checks' outcomes.
C8_AttemptedExactlyOnce ==
    /\ \A n \in Names : attempts[n] <= 1
    /\ Polled => \A n \in Names : attempts[n] = (IF n \in Keys(urls_dict) THEN 1 ELSE 0)

C8_Witness ==
    /\ Polled
    /\ Len(urls_dict) >= 2
    /\ Raising # {}
    /\ \E i \in 1..Len(Returned) : Returned[i].status = "timeout"

\* C9: started with an input file that is missing or is not valid JSON, the
\* program, once past loading, has printed a diagnostic and exited with a
\* non-zero code, having submitted no check, attempted no GET and written
\* no result file.
C9_BadFileFailsFast ==
    (argv = "file" /\ fileState \in {"missing", "invalid"} /\ pc # "start") =>
        /\ pc = "exited"
        /\ diagnostic
        /\ exitCode # None
        /\ exitCode[1] # 0
        /\ ~fileWritten
        /\ ~Polled
        /\ submitted = 0
        /\ \A n \in Names : futState[n] = "none" /\ attempts[n] = 0

C9_Witness ==
    /\ argv = "file"
    /\ fileState = "invalid"
    /\ pc = "exited"
    /\ diagnostic

\* C10: under fair scheduling, with every running check eventually returning
\* or raising, a poll run that has begun eventually returns, for no
\* endpoints, for at most max_workers and for more than max_workers of them;
\* and whenever it has returned, no check is queued or in flight.
C10_PollReturns ==
    /\ (pc = "submit") ~> Polled
    /\ [](Polled => (queue = <<>> /\ RunningNow = {}
                     /\ \A n \in Names : futState[n] # "pending"))

C10_Witness ==
    /\ Polled
    /\ Len(urls_dict) > max_workers
    /\ Len(Returned) = Len(urls_dict)

====
